---- MODULE Spec2Model ----
(***************************************************************************)
(* pocket2fedi: one run of main() in src/main.go.                          *)
(*                                                                         *)
(* The run loads four credentials from the environment, fetches the recent *)
(* Pocket saves, keeps the unarchived ones and posts each to Mastodon,     *)
(* sleeping after every post.  Everything the run does to the outside      *)
(* world (requests, sleeps, log lines) is appended to `trace`, in order.   *)
(***************************************************************************)
EXTENDS Integers, Sequences, FiniteSets, TLC

VARIABLES env, pc, config, err, response, recentSaves, idx, trace, exitCode

vars == <<env, pc, config, err, response, recentSaves, idx, trace, exitCode>>

-----------------------------------------------------------------------------
(* Bounds of the model *)

\* largest number of records in the source's keyed collection
MaxItems == 2

\* Go's nil pointer and nil error; a nil slice is the empty sequence
Nil == [nil |-> TRUE]

-----------------------------------------------------------------------------
(* Constants of the program *)

\* the Count of the api.RetrieveInput
RetrieveCount == 10

\* the seconds main sleeps after a post
PacingSeconds == 2

-----------------------------------------------------------------------------
(* The environment *)

EnvNames == {"POCKET_CONSUMER_KEY", "POCKET_ACCESS_TOKEN", "MASTODON_SERVER", "MASTODON_TOKEN"}

\* values a variable that is set may hold; "" is a variable set to empty
EnvValues == {"", "a", "b"}

\* an environment sets some of the names, each to a string
Environments == UNION {[S -> EnvValues] : S \in SUBSET EnvNames}

\* os.Getenv: the value of a variable, "" when it is not set
Getenv(e, name) == IF name \in DOMAIN e THEN e[name] ELSE ""

-----------------------------------------------------------------------------
(* loadConfigFromEnv *)

\* a loader that reads the Mastodon token from the wrong variable
LoadConfigFromEnv_wrongName(e) ==
    LET c == [PocketConsumerKey |-> Getenv(e, "POCKET_CONSUMER_KEY"),
              PocketAccessToken |-> Getenv(e, "POCKET_ACCESS_TOKEN"),
              MastodonServer    |-> Getenv(e, "MASTODON_SERVER"),
              MastodonToken     |-> Getenv(e, "POCKET_ACCESS_TOKEN")]
    IN  IF \/ c.PocketConsumerKey = ""
           \/ c.PocketAccessToken = ""
           \/ c.MastodonServer = ""
           \/ c.MastodonToken = ""
        THEN [config |-> Nil, err |-> [msg |-> "missing required environment variables"]]
        ELSE [config |-> c, err |-> Nil]

\* a loader whose check forgets the last field
LoadConfigFromEnv_uncheckedToken(e) ==
    LET c == [PocketConsumerKey |-> Getenv(e, "POCKET_CONSUMER_KEY"),
              PocketAccessToken |-> Getenv(e, "POCKET_ACCESS_TOKEN"),
              MastodonServer    |-> Getenv(e, "MASTODON_SERVER"),
              MastodonToken     |-> Getenv(e, "MASTODON_TOKEN")]
    IN  IF \/ c.PocketConsumerKey = ""
           \/ c.PocketAccessToken = ""
           \/ c.MastodonServer = ""
        THEN [config |-> Nil, err |-> [msg |-> "missing required environment variables"]]
        ELSE [config |-> c, err |-> Nil]

LoadConfigFromEnv(e) ==
    LET c == [PocketConsumerKey |-> Getenv(e, "POCKET_CONSUMER_KEY"),
              PocketAccessToken |-> Getenv(e, "POCKET_ACCESS_TOKEN"),
              MastodonServer    |-> Getenv(e, "MASTODON_SERVER"),
              MastodonToken     |-> Getenv(e, "MASTODON_TOKEN")]
    IN  IF \/ c.PocketConsumerKey = ""
           \/ c.PocketAccessToken = ""
           \/ c.MastodonServer = ""
           \/ c.MastodonToken = ""
        THEN [config |-> Nil, err |-> [msg |-> "missing required environment variables"]]
        ELSE [config |-> c, err |-> Nil]

-----------------------------------------------------------------------------
(* The source (Pocket) and getRecentPocketSaves *)

Titles == {"", "Article One"}
URLs == {"http://example.com/a1", "http://example.com/a2"}

\* item status on the wire: 0 unread, 1 archived, 2 deleted
Statuses == {0, 1, 2}

ItemRecords == [ResolvedTitle : Titles, ResolvedURL : URLs, Status : Statuses]

\* the keyed collections of at most MaxItems records; the keys are 1..n
ItemLists == UNION {[1..n -> ItemRecords] : n \in 0..MaxItems}

\* HTTP status codes the source answers with
SourceCodes == {200, 401, 500}

Is2xx(code) == code \in 200..299

\* what the source answers: a status code and a body that decodes to a list
\* of records or does not decode
SourceResponses ==
    [code : {200}, decodable : {TRUE}, list : ItemLists]
    \cup [code : SourceCodes, decodable : {FALSE}, list : {<<>>}]
    \cup [code : SourceCodes \ {200}, decodable : {TRUE}, list : {<<>>}]

\* the orders in which a Go range statement may enumerate the keys of m
KeyOrders(m) ==
    {o \in [1..Cardinality(DOMAIN m) -> DOMAIN m] :
        \A i, j \in DOMAIN o : i # j => o[i] # o[j]}

\* client.Retrieve: the decoded output, or an error for a non-2xx status or
\* an undecodable body
Retrieve(resp) ==
    IF ~Is2xx(resp.code)
    THEN [output |-> Nil, err |-> [kind |-> "SourceUnavailable", code |-> resp.code]]
    ELSE IF ~resp.decodable
    THEN [output |-> Nil, err |-> [kind |-> "SourceResponseInvalid"]]
    ELSE [output |-> [List |-> resp.list], err |-> Nil]

\* a loop that drops only the deleted records (status 2)
UnarchivedItems_keepArchived(list, order) ==
    LET enumerated == [i \in 1..Len(order) |-> list[order[i]]]
        kept == SelectSeq(enumerated, LAMBDA item : item.Status # 2)
    IN  [i \in 1..Len(kept) |-> [Title |-> kept[i].ResolvedTitle,
                                 URL   |-> kept[i].ResolvedURL]]

\* the range loop of getRecentPocketSaves over output.List, enumerated in
\* the given order: the unarchived records, reduced to title and URL
UnarchivedItems(list, order) ==
    LET enumerated == [i \in 1..Len(order) |-> list[order[i]]]
        kept == SelectSeq(enumerated, LAMBDA item : item.Status = 0)
    IN  [i \in 1..Len(kept) |-> [Title |-> kept[i].ResolvedTitle,
                                 URL   |-> kept[i].ResolvedURL]]

\* the request getRecentPocketSaves sends
RetrieveRequest(consumerKey, accessToken) ==
    [op |-> "fetch", consumerKey |-> consumerKey, accessToken |-> accessToken,
     count |-> RetrieveCount, sort |-> "newest", detailType |-> "simple"]

\* a fetcher that reports an error when no record is unarchived
GetRecentPocketSaves_emptyIsError(consumerKey, accessToken, clientErr, resp, order) ==
    IF clientErr
    THEN [saves |-> <<>>,
          err |-> [msg |-> "failed to create Pocket client", cause |-> [kind |-> "NewClient"]],
          did |-> <<>>]
    ELSE LET r == Retrieve(resp)
             request == RetrieveRequest(consumerKey, accessToken)
         IN  IF r.err # Nil
             THEN [saves |-> <<>>,
                   err |-> [msg |-> "failed to retrieve Pocket items", cause |-> r.err],
                   did |-> <<request>>]
             ELSE LET saves == UnarchivedItems(r.output.List, order)
                  IN  IF saves = <<>>
                      THEN [saves |-> <<>>, err |-> [msg |-> "no recent Pocket saves"],
                            did |-> <<request>>]
                      ELSE [saves |-> saves,
                            err |-> Nil,
                            did |-> <<request,
                                      [op |-> "log", msg |-> "Successfully retrieved recent Pocket saves",
                                       n |-> Len(saves)]>>]

\* a fetcher that swallows the error of Retrieve and returns no items
GetRecentPocketSaves_swallowed(consumerKey, accessToken, clientErr, resp, order) ==
    IF clientErr
    THEN [saves |-> <<>>,
          err |-> [msg |-> "failed to create Pocket client", cause |-> [kind |-> "NewClient"]],
          did |-> <<>>]
    ELSE LET r == Retrieve(resp)
             request == RetrieveRequest(consumerKey, accessToken)
         IN  IF r.err # Nil
             THEN [saves |-> <<>>, err |-> Nil, did |-> <<request>>]
             ELSE LET saves == UnarchivedItems(r.output.List, order)
                  IN  [saves |-> saves,
                       err |-> Nil,
                       did |-> <<request,
                                 [op |-> "log", msg |-> "Successfully retrieved recent Pocket saves",
                                  n |-> Len(saves)]>>]

\* a fetcher that sends its request a second time when Retrieve fails
GetRecentPocketSaves_retried(consumerKey, accessToken, clientErr, resp, order) ==
    IF clientErr
    THEN [saves |-> <<>>,
          err |-> [msg |-> "failed to create Pocket client", cause |-> [kind |-> "NewClient"]],
          did |-> <<>>]
    ELSE LET r == Retrieve(resp)
             request == RetrieveRequest(consumerKey, accessToken)
         IN  IF r.err # Nil
             THEN [saves |-> <<>>,
                   err |-> [msg |-> "failed to retrieve Pocket items", cause |-> r.err],
                   did |-> <<request, request>>]
             ELSE LET saves == UnarchivedItems(r.output.List, order)
                  IN  [saves |-> saves,
                       err |-> Nil,
                       did |-> <<request,
                                 [op |-> "log", msg |-> "Successfully retrieved recent Pocket saves",
                                  n |-> Len(saves)]>>]

\* getRecentPocketSaves: its two results and what it does on the way.
\* clientErr: api.NewClient failed; resp: the source's answer;
\* order: the enumeration order of the range loop.
GetRecentPocketSaves(consumerKey, accessToken, clientErr, resp, order) ==
    IF clientErr
    THEN [saves |-> <<>>,
          err |-> [msg |-> "failed to create Pocket client", cause |-> [kind |-> "NewClient"]],
          did |-> <<>>]
    ELSE LET r == Retrieve(resp)
             request == RetrieveRequest(consumerKey, accessToken)
         IN  IF r.err # Nil
             THEN [saves |-> <<>>,
                   err |-> [msg |-> "failed to retrieve Pocket items", cause |-> r.err],
                   did |-> <<request>>]
             ELSE LET saves == UnarchivedItems(r.output.List, order)
                  IN  [saves |-> saves,
                       err |-> Nil,
                       did |-> <<request,
                                 [op |-> "log", msg |-> "Successfully retrieved recent Pocket saves",
                                  n |-> Len(saves)]>>]

-----------------------------------------------------------------------------
(* The destination (Mastodon) and postToMastodon *)

\* HTTP status codes the destination answers with
DestinationCodes == {200, 404, 500}

\* client.PostStatus: an error for a non-2xx answer, carrying the status
PostStatus(code) ==
    IF Is2xx(code) THEN Nil ELSE [kind |-> "DestinationRejected", code |-> code]

\* a publisher that logs a failure itself and returns nil
PostToMastodon_swallowed(server, accessToken, status, code) ==
    LET e == PostStatus(code)
        call == [op |-> "post", server |-> server, accessToken |-> accessToken,
                 status |-> status, code |-> code, err |-> Nil]
    IN  IF e # Nil
        THEN [err |-> Nil,
              did |-> <<call, [op |-> "log", msg |-> "failed to post to Mastodon", err |-> e]>>]
        ELSE [err |-> Nil,
              did |-> <<call,
                        [op |-> "log", msg |-> "Successfully posted to Mastodon", status |-> status]>>]

\* postToMastodon: its result and what it does on the way
PostToMastodon(server, accessToken, status, code) ==
    LET e == PostStatus(code)
        result == IF e # Nil
                  THEN [msg |-> "failed to post to Mastodon", cause |-> e]
                  ELSE Nil
        call == [op |-> "post", server |-> server, accessToken |-> accessToken,
                 status |-> status, code |-> code, err |-> result]
    IN  IF e # Nil
        THEN [err |-> result, did |-> <<call>>]
        ELSE [err |-> result,
              did |-> <<call,
                        [op |-> "log", msg |-> "Successfully posted to Mastodon", status |-> status]>>]

\* a format call with its two arguments exchanged
FormatStatus_swapped(save) == "New Pocket save: " \o save.URL \o " - " \o save.Title

\* fmt.Sprintf("New Pocket save: %s - %s", save.Title, save.URL)
FormatStatus(save) == "New Pocket save: " \o save.Title \o " - " \o save.URL

-----------------------------------------------------------------------------
(* main *)

\* a log call that prints, after which main returns normally
LogFatalf_printAndReturn(entry) == [did |-> <<entry>>, pc |-> "exited", exitCode |-> 0]

\* log.Fatalf: the message is logged and the process exits with status 1
LogFatalf(entry) == [did |-> <<entry>>, pc |-> "exited", exitCode |-> 1]

\* a loop that treats a failed post as fatal
AfterPost_fatal(save, postErr, i) ==
    IF postErr # Nil
    THEN [did |-> <<[op |-> "log", msg |-> "Error posting to Mastodon for",
                     title |-> save.Title, err |-> postErr]>>,
          pc |-> "exited", idx |-> i, exitCode |-> 1]
    ELSE [did |-> <<>>, pc |-> "sleep", idx |-> i, exitCode |-> -1]

\* a loop that continues with the next element right after a failed post
AfterPost_continue(save, postErr, i) ==
    IF postErr # Nil
    THEN [did |-> <<[op |-> "log", msg |-> "Error posting to Mastodon for",
                     title |-> save.Title, err |-> postErr]>>,
          pc |-> "range", idx |-> i + 1, exitCode |-> -1]
    ELSE [did |-> <<>>, pc |-> "sleep", idx |-> i, exitCode |-> -1]

\* a loop that drops the error of postToMastodon
AfterPost_silent(save, postErr, i) ==
    [did |-> <<>>, pc |-> "sleep", idx |-> i, exitCode |-> -1]

\* a loop that tries the same element again after a failed post
AfterPost_retry(save, postErr, i) ==
    IF postErr # Nil
    THEN [did |-> <<[op |-> "log", msg |-> "Error posting to Mastodon for",
                     title |-> save.Title, err |-> postErr]>>,
          pc |-> "range", idx |-> i, exitCode |-> -1]
    ELSE [did |-> <<>>, pc |-> "sleep", idx |-> i, exitCode |-> -1]

\* a loop that sleeps between elements only, not after the last one
AfterPost_noTrailingSleep(save, postErr, i) ==
    LET did == IF postErr # Nil
               THEN <<[op |-> "log", msg |-> "Error posting to Mastodon for",
                       title |-> save.Title, err |-> postErr]>>
               ELSE <<>>
    IN  IF i = Len(recentSaves)
        THEN [did |-> did, pc |-> "range", idx |-> i + 1, exitCode |-> -1]
        ELSE [did |-> did, pc |-> "sleep", idx |-> i, exitCode |-> -1]

\* main after postToMastodon has returned postErr for save, up to the sleep:
\* a failure is logged, and in either case the loop goes on to its sleep
\* with the same element
AfterPost(save, postErr, i) ==
    IF postErr # Nil
    THEN [did |-> <<[op |-> "log", msg |-> "Error posting to Mastodon for",
                     title |-> save.Title, err |-> postErr]>>,
          pc |-> "sleep", idx |-> i, exitCode |-> -1]
    ELSE [did |-> <<>>, pc |-> "sleep", idx |-> i, exitCode |-> -1]

Init ==
    /\ env \in Environments
    /\ pc = "loadConfig"
    /\ config = Nil
    /\ err = Nil
    /\ response = Nil
    /\ recentSaves = <<>>
    /\ idx = 0
    /\ trace = <<>>
    /\ exitCode = -1

\* config, err := loadConfigFromEnv(); log.Fatalf on error
LoadConfig ==
    /\ pc = "loadConfig"
    /\ LET r == LoadConfigFromEnv(env)
       IN  /\ config' = r.config
           /\ err' = r.err
           /\ IF r.err # Nil
              THEN LET f == LogFatalf([op |-> "log", msg |-> "Error loading configuration",
                                       err |-> r.err])
                   IN  /\ trace' = trace \o f.did
                       /\ pc' = f.pc
                       /\ exitCode' = f.exitCode
              ELSE /\ pc' = "fetch"
                   /\ UNCHANGED <<trace, exitCode>>
    /\ UNCHANGED <<env, response, recentSaves, idx>>

\* recentSaves, err := getRecentPocketSaves(...); log and return on error
Fetch ==
    /\ pc = "fetch"
    /\ \E clientErr \in BOOLEAN, resp \in SourceResponses :
         /\ response' = IF clientErr THEN Nil ELSE resp
         /\ \E order \in KeyOrders(resp.list) :
           LET r == GetRecentPocketSaves(config.PocketConsumerKey, config.PocketAccessToken,
                                         clientErr, resp, order)
           IN  /\ err' = r.err
               /\ recentSaves' = r.saves
               /\ IF r.err # Nil
                  THEN /\ trace' = trace \o r.did \o
                                     <<[op |-> "log", msg |-> "Error fetching Pocket saves", err |-> r.err]>>
                       /\ pc' = "exited"
                       /\ exitCode' = 0
                       /\ UNCHANGED idx
                  ELSE /\ trace' = trace \o r.did
                       /\ idx' = 1
                       /\ pc' = "range"
                       /\ UNCHANGED exitCode
    /\ UNCHANGED <<env, config>>

\* one iteration of the loop up to the sleep: format, post, log a failure
Post ==
    /\ pc = "range"
    /\ idx <= Len(recentSaves)
    /\ \E code \in DestinationCodes :
         LET save == recentSaves[idx]
             r == PostToMastodon(config.MastodonServer, config.MastodonToken,
                                 FormatStatus(save), code)
             a == AfterPost(save, r.err, idx)
         IN  /\ trace' = trace \o r.did \o a.did
             /\ pc' = a.pc
             /\ idx' = a.idx
             /\ exitCode' = a.exitCode
    /\ UNCHANGED <<env, config, err, response, recentSaves>>

\* time.Sleep(2 * time.Second), then the next element of the range
Sleep ==
    /\ pc = "sleep"
    /\ trace' = Append(trace, [op |-> "sleep", seconds |-> PacingSeconds])
    /\ idx' = idx + 1
    /\ pc' = "range"
    /\ UNCHANGED <<env, config, err, response, recentSaves, exitCode>>

\* the range is exhausted: log completion and return from main
Finish ==
    /\ pc = "range"
    /\ idx > Len(recentSaves)
    /\ trace' = Append(trace, [op |-> "log", msg |-> "Finished processing recent Pocket saves."])
    /\ pc' = "exited"
    /\ exitCode' = 0
    /\ UNCHANGED <<env, config, err, response, recentSaves, idx>>

Next == LoadConfig \/ Fetch \/ Post \/ Sleep \/ Finish

Spec == Init /\ [][Next]_vars

\* main is one sequential thread whose calls (the load, the two network
\* calls with their responses or errors, the sleep) all return: a step
\* that can be taken is eventually taken
FairSpec == Spec /\ WF_vars(Next)

-----------------------------------------------------------------------------
(* What a run has done so far *)

Posts == SelectSeq(trace, LAMBDA e : e.op = "post")
Fetches == SelectSeq(trace, LAMBDA e : e.op = "fetch")
Sleeps == SelectSeq(trace, LAMBDA e : e.op = "sleep")
Logged(msg) == SelectSeq(trace, LAMBDA e : e.op = "log" /\ e.msg = msg)

\* loadConfigFromEnv has returned
ConfigLoaded == pc # "loadConfig"

\* the names the environment does not set, or sets to the empty string
MissingNames == {n \in EnvNames : n \notin DOMAIN env \/ env[n] = ""}

-----------------------------------------------------------------------------
(* Configuration loading *)

\* C1: whenever all four required environment values are present and
\* non-empty, loadConfigFromEnv succeeds (no configuration error is
\* reported, the run does not exit with status 1) and the Config it returns
\* holds exactly those four values, each in its own field and unchanged.
C1_LoadSucceeds ==
    (ConfigLoaded /\ MissingNames = {}) =>
        /\ config # Nil
        /\ DOMAIN config = {"PocketConsumerKey", "PocketAccessToken",
                            "MastodonServer", "MastodonToken"}
        /\ config.PocketConsumerKey = env["POCKET_CONSUMER_KEY"]
        /\ config.PocketAccessToken = env["POCKET_ACCESS_TOKEN"]
        /\ config.MastodonServer = env["MASTODON_SERVER"]
        /\ config.MastodonToken = env["MASTODON_TOKEN"]
        /\ Logged("Error loading configuration") = <<>>
        /\ exitCode # 1

\* the loader has returned for an environment whose four values are set,
\* the two tokens to different strings
C1_Witness ==
    /\ ConfigLoaded
    /\ MissingNames = {}
    /\ env["POCKET_ACCESS_TOKEN"] = "a"
    /\ env["MASTODON_TOKEN"] = "b"
    /\ config # Nil

\* C2: for every non-empty set of the four required values that is absent
\* or empty, loadConfigFromEnv returns an error and a nil Config, whatever
\* the other variables hold.
C2_LoadFails ==
    (ConfigLoaded /\ MissingNames # {}) =>
        /\ config = Nil
        /\ Len(Logged("Error loading configuration")) = 1
        /\ Logged("Error loading configuration")[1].err # Nil

\* the loader has returned for an environment in which only the last
\* variable is missing
C2_Witness ==
    /\ ConfigLoaded
    /\ MissingNames = {"MASTODON_TOKEN"}
    /\ "MASTODON_TOKEN" \notin DOMAIN env
    /\ config = Nil

-----------------------------------------------------------------------------
(* Fetching *)

\* getRecentPocketSaves has been called and has returned
FetchReturned == config # Nil /\ pc # "fetch"

\* the source answered 2xx with a body that decodes
SourceSucceeded ==
    /\ FetchReturned
    /\ response # Nil
    /\ Is2xx(response.code)
    /\ response.decodable

\* the fetch failed: no client, a non-2xx answer or an undecodable body
FetchFailed == FetchReturned /\ ~SourceSucceeded

\* the keys of the records of the response whose status is 0
ActiveKeys == {k \in DOMAIN response.list : response.list[k].Status = 0}

\* C3: given a source response with N items of which M have status 0,
\* getRecentPocketSaves returns no error and exactly M items: the items
\* correspond one to one to the active records, each carrying its record's
\* title and URL verbatim, whatever order the collection was enumerated in.
C3_ActiveItemsReturned ==
    SourceSucceeded =>
        /\ err = Nil
        /\ Logged("Error fetching Pocket saves") = <<>>
        /\ Len(recentSaves) = Cardinality(ActiveKeys)
        /\ \E f \in [1..Len(recentSaves) -> ActiveKeys] :
             /\ \A i, j \in 1..Len(recentSaves) : i # j => f[i] # f[j]
             /\ \A i \in 1..Len(recentSaves) :
                  /\ DOMAIN recentSaves[i] = {"Title", "URL"}
                  /\ recentSaves[i].Title = response.list[f[i]].ResolvedTitle
                  /\ recentSaves[i].URL = response.list[f[i]].ResolvedURL

\* two records, the first archived and the second active, gave one item
C3_Witness ==
    /\ SourceSucceeded
    /\ Len(response.list) = 2
    /\ response.list[1].Status = 1
    /\ response.list[2].Status = 0
    /\ Len(recentSaves) = 1
    /\ recentSaves[1].Title = "Article One"

\* C4: when the source answers successfully and no item has status 0 (the
\* collection may be empty), getRecentPocketSaves returns an empty list and
\* no error, and the run finishes normally without a single publish attempt.
C4_NoActiveItems ==
    (SourceSucceeded /\ ActiveKeys = {}) =>
        /\ recentSaves = <<>>
        /\ err = Nil
        /\ Logged("Error fetching Pocket saves") = <<>>
        /\ Posts = <<>>
        /\ pc \in {"range", "exited"}
        /\ pc = "range" => ENABLED Finish
        /\ pc = "exited" =>
              /\ exitCode = 0
              /\ trace[Len(trace)] = [op |-> "log", msg |-> "Finished processing recent Pocket saves."]

\* a run has finished after a response of two records, neither active
C4_Witness ==
    /\ SourceSucceeded
    /\ Len(response.list) = 2
    /\ ActiveKeys = {}
    /\ recentSaves = <<>>
    /\ pc = "exited"

\* C5: if the fetch fails, getRecentPocketSaves returns an error and no
\* item list, main reports the failure, and the run terminates with no
\* publish attempt and no pacing delay.
C5_FetchFailureEndsRun ==
    FetchFailed =>
        /\ err # Nil
        /\ recentSaves = <<>>
        /\ Len(Logged("Error fetching Pocket saves")) = 1
        /\ trace[Len(trace)] = [op |-> "log", msg |-> "Error fetching Pocket saves", err |-> err]
        /\ pc = "exited"
        /\ Posts = <<>>
        /\ Sleeps = <<>>

\* the source answered 500 and the run is over
C5_Witness ==
    /\ FetchFailed
    /\ response # Nil
    /\ response.code = 500
    /\ pc = "exited"

\* C6: if configuration loading fails, the run terminates at once with a
\* non-zero exit status: it makes no fetch request and no publish attempt.
C6_ConfigFailureIsFatal ==
    (ConfigLoaded /\ config = Nil) =>
        /\ pc = "exited"
        /\ exitCode \notin {-1, 0}
        /\ Fetches = <<>>
        /\ Posts = <<>>
        /\ Sleeps = <<>>
        /\ Len(trace) = 1

\* the loader failed for an environment that sets nothing
C6_Witness ==
    /\ ConfigLoaded
    /\ config = Nil
    /\ DOMAIN env = {}
    /\ pc = "exited"
    /\ exitCode = 1

-----------------------------------------------------------------------------
(* Publishing *)

\* the fetch returned its items without an error
FetchSucceeded == FetchReturned /\ err = Nil

FailedPosts == SelectSeq(Posts, LAMBDA p : p.err # Nil)

\* C7: a publish failure on one item never aborts the batch.  After a
\* fetch of k items the publisher has been invoked once for every item the
\* loop has passed, whatever each attempt returned; every failed attempt is
\* followed at once by its report; the run stops only by finishing, and
\* then it has made k attempts and exits normally.
C7_FailuresDoNotAbort ==
    FetchSucceeded =>
        /\ Len(Posts) = IF pc = "sleep" THEN idx ELSE idx - 1
        /\ Len(Logged("Error posting to Mastodon for")) = Len(FailedPosts)
        /\ \A i \in 1..Len(trace) :
             (trace[i].op = "post" /\ trace[i].err # Nil) =>
                 /\ i < Len(trace)
                 /\ trace[i + 1].op = "log"
                 /\ trace[i + 1].msg = "Error posting to Mastodon for"
                 /\ trace[i + 1].err = trace[i].err
        /\ pc # "exited" => ENABLED Next
        /\ pc = "exited" =>
              /\ Len(Posts) = Len(recentSaves)
              /\ exitCode = 0
              /\ trace[Len(trace)] = [op |-> "log", msg |-> "Finished processing recent Pocket saves."]

\* a run of two items has finished although both posts failed
C7_Witness ==
    /\ FetchSucceeded
    /\ pc = "exited"
    /\ Len(recentSaves) = 2
    /\ Len(Posts) = 2
    /\ Len(FailedPosts) = 2

\* C8: in one run each fetched item is passed to the publisher exactly
\* once, in the order of the returned list: the i-th publish attempt carries
\* the message built from the title and URL of the i-th item, there are
\* never more attempts than items, and a finished run has made one attempt
\* per item.
C8_EachItemPostedOnce ==
    /\ Len(Posts) <= Len(recentSaves)
    /\ \A i \in 1..Len(Posts) :
         Posts[i].status =
             "New Pocket save: " \o recentSaves[i].Title \o " - " \o recentSaves[i].URL
    /\ FetchSucceeded => Len(Posts) = IF pc = "sleep" THEN idx ELSE idx - 1
    /\ (FetchSucceeded /\ pc = "exited") => Len(Posts) = Len(recentSaves)

\* a run of two different items has finished with two attempts, the first
\* of which failed
C8_Witness ==
    /\ FetchSucceeded
    /\ pc = "exited"
    /\ Len(recentSaves) = 2
    /\ recentSaves[1] # recentSaves[2]
    /\ Len(Posts) = 2
    /\ Posts[1].err # Nil

C10_DelayBetweenAttempts ==
    \A i, j \in 1..Len(trace) :
        (/\ i < j
         /\ trace[i].op = "post"
         /\ trace[j].op = "post"
         /\ \A k \in (i + 1)..(j - 1) : trace[k].op # "post") =>
            /\ Cardinality({k \in (i + 1)..(j - 1) : trace[k].op = "sleep"}) = 1
            /\ \A k \in (i + 1)..(j - 1) : trace[k].op = "sleep" => trace[k].seconds = 2

\* a second attempt was made after a first one that failed
C10_Witness ==
    /\ Len(Posts) = 2
    /\ Posts[1].err # Nil
    /\ Len(Sleeps) >= 1

-----------------------------------------------------------------------------
(* Reporting *)

\* the log lines that report an error
ErrorReports ==
    SelectSeq(trace, LAMBDA e : e.op = "log" /\ "err" \in DOMAIN e /\ e.err # Nil)

\* the post attempts the destination answered with a non-2xx status
RejectedPosts == SelectSeq(Posts, LAMBDA p : p.code \notin 200..299)

\* the failures that have occurred so far: a failed load, a failed fetch
\* and every rejected post
FailureCount ==
    (IF ConfigLoaded /\ MissingNames # {} THEN 1 ELSE 0)
    + (IF FetchFailed THEN 1 ELSE 0)
    + Len(RejectedPosts)

\* C11: no error is silently swallowed.  Every configuration, fetch or
\* publish failure of a run is reported by a log line before the run takes
\* its next step or ends: the number of error reports always equals the
\* number of failures so far, a failed load or fetch is the last thing the
\* run logs, and the report of a rejected post follows the attempt at once.
C11_EveryFailureReported ==
    /\ Len(ErrorReports) = FailureCount
    /\ (ConfigLoaded /\ MissingNames # {}) =>
          /\ trace[Len(trace)].op = "log"
          /\ trace[Len(trace)].msg = "Error loading configuration"
          /\ trace[Len(trace)].err # Nil
    /\ FetchFailed =>
          /\ trace[Len(trace)].op = "log"
          /\ trace[Len(trace)].msg = "Error fetching Pocket saves"
          /\ trace[Len(trace)].err # Nil
    /\ \A i \in 1..Len(trace) :
         (trace[i].op = "post" /\ trace[i].code \notin 200..299) =>
             /\ i < Len(trace)
             /\ trace[i + 1].op = "log"
             /\ trace[i + 1].msg = "Error posting to Mastodon for"
             /\ trace[i + 1].err # Nil

\* a finished run of two items whose first post was rejected with 500 and
\* whose second was accepted has reported one error
C11_Witness ==
    /\ pc = "exited"
    /\ Len(Posts) = 2
    /\ Posts[1].code = 500
    /\ Posts[2].code = 200
    /\ Len(ErrorReports) = 1
    /\ FailureCount = 1

-----------------------------------------------------------------------------
(* Order of the run *)

\* what holds of the order of a run in every state, whatever the number of
\* fetch requests: nothing happens before the configuration is loaded, a
\* fetch request is made only with a loaded configuration and carries its
\* Pocket credentials, there is never a second request, and every post
\* attempt comes after the request and the successful return of the fetch
\* and carries the Mastodon credentials of the configuration
OrderOfRun ==
    /\ pc = "loadConfig" => (trace = <<>> /\ config = Nil)
    /\ Len(Fetches) <= 1
    /\ Fetches # <<>> =>
          /\ config # Nil
          /\ Fetches[1].consumerKey = config.PocketConsumerKey
          /\ Fetches[1].accessToken = config.PocketAccessToken
    /\ \A i \in 1..Len(trace) :
         trace[i].op = "post" =>
             /\ FetchSucceeded
             /\ \E j \in 1..(i - 1) :
                  /\ trace[j].op = "fetch"
                  /\ trace[j + 1].op = "log"
                  /\ trace[j + 1].msg = "Successfully retrieved recent Pocket saves"
                  /\ j + 1 < i
             /\ trace[i].server = config.MastodonServer
             /\ trace[i].accessToken = config.MastodonToken

\* what holds of every step of a run: the environment and a loaded
\* configuration do not change, the load and the fetch are never entered a
\* second time, the fetched list is not replaced, the loop only moves
\* forward, and a run that has exited does nothing more
SinglePassStep ==
    /\ env' = env
    /\ ConfigLoaded => (config' = config /\ pc' # "loadConfig")
    /\ FetchReturned => (/\ pc' # "fetch"
                         /\ Fetches' = Fetches
                         /\ response' = response
                         /\ recentSaves' = recentSaves)
    /\ idx' >= idx
    /\ pc # "exited"

\* C12 as stated: a run is strictly sequential and single-pass, and once
\* the configuration is loaded and the fetch has returned, exactly one
\* fetch request has been issued.
C12_ExactlyOneRequest ==
    /\ OrderOfRun
    /\ FetchReturned => Len(Fetches) = 1

\* C12, amended: a run is strictly sequential and single-pass.  The
\* configuration is loaded once and not modified afterwards; no fetch
\* request is made before the load has succeeded; the fetch is made once
\* and issues at most one request: exactly one when the source is
\* contacted, none when the Pocket client cannot be created; every post
\* attempt happens after the fetch has returned successfully; there is no
\* second fetch and no second pass.
C12_SequentialSinglePass ==
    /\ [](/\ OrderOfRun
          /\ (FetchReturned /\ response # Nil) => Len(Fetches) = 1
          /\ (FetchReturned /\ response = Nil) => (Fetches = <<>> /\ Posts = <<>>))
    /\ [][SinglePassStep]_vars

\* a finished run has loaded its configuration, sent one fetch request
\* with the Pocket credentials and then made two post attempts
C12_Witness ==
    /\ pc = "exited"
    /\ config # Nil
    /\ config.PocketConsumerKey = "a"
    /\ config.MastodonServer = "b"
    /\ Len(Fetches) = 1
    /\ Fetches[1].consumerKey = "a"
    /\ Len(Posts) = 2
    /\ Posts[2].server = "b"

-----------------------------------------------------------------------------
(* Termination *)

-----------------------------------------------------------------------------
(* Number of delays *)

\* C14: the pacing delay is executed once after every publish attempt, the
\* last of the batch and the failed ones included.  After a successful
\* fetch the run has slept once for every attempt it has completed; a
\* finished run of k items has slept exactly k times, the last time right
\* before it logs completion, and a run with k = 0 has not slept at all.
C14_DelayAfterEveryAttempt ==
    /\ ~FetchSucceeded => Sleeps = <<>>
    /\ FetchSucceeded =>
          /\ Len(Sleeps) = idx - 1
          /\ Len(Sleeps) = IF pc = "sleep" THEN Len(Posts) - 1 ELSE Len(Posts)
          /\ \A i \in 1..Len(Sleeps) : Sleeps[i].seconds = 2
          /\ pc = "exited" =>
                /\ Len(Sleeps) = Len(recentSaves)
                /\ trace[Len(trace)] =
                       [op |-> "log", msg |-> "Finished processing recent Pocket saves."]
                /\ Len(recentSaves) > 0 => trace[Len(trace) - 1].op = "sleep"

\* a finished run of two items slept twice although its last post failed
C14_Witness ==
    /\ FetchSucceeded
    /\ pc = "exited"
    /\ Len(recentSaves) = 2
    /\ Len(Posts) = 2
    /\ Posts[2].code = 500
    /\ Len(Sleeps) = 2

====
